---- MODULE Spec2Model ----
(***************************************************************************)
(* Model of app.py: a Streamlit script that reads attendee e-mails from a  *)
(* CSV upload, creates a Google Calendar event with a Meet link, and then  *)
(* (optionally) builds an ICS invite and mails it to every attendee.       *)
(*                                                                         *)
(* Spec     models one script run per form submission, step by step at     *)
(*          the outbound-call boundaries.                                  *)
(* SpecIcs  applies the pure functions schedule_meeting's time arithmetic, *)
(*          to_utc and build_ics to inputs drawn from bounded sets.        *)
(***************************************************************************)
EXTENDS Integers, Sequences, FiniteSets, TLC

VARIABLES
    tokenFile,      \* content of token.pkl
    uploaded_file,  \* the st.file_uploader value
    attendees,      \* module-level list `attendees`
    send_custom,    \* the st.checkbox value of the submitted form
    pc,             \* position of the script run
    calls,          \* outbound API calls issued by the current run, in order
    created,        \* schedule_meeting's local `created`, while in scope
    extraction,     \* how the try block of schedule_meeting ended
    meet_link,      \* meet_link, in schedule_meeting and as unpacked at line 206
    event_id,       \* event_id as unpacked at line 206
    st_error,       \* set of st.error messages shown by the run
    st_success,     \* TRUE once "Meeting Scheduled" was shown
    exception,      \* uncaught exception that ended the run, or "none"
    fpc,            \* SpecIcs: position of the function application
    fin,            \* SpecIcs: the drawn inputs
    fsched,         \* SpecIcs: what schedule_meeting returned
    ics             \* SpecIcs: the document build_ics returned

appvars == <<tokenFile, uploaded_file, attendees, send_custom, pc,
             calls, created, extraction, meet_link, event_id, st_error,
             st_success, exception>>
fnvars == <<fpc, fin, fsched, ics>>
vars == <<appvars, fnvars>>

----------------------------------------------------------------------------
(* Bounds *)

MaxRows == 2            \* rows of an uploaded CSV
MaxEntryPoints == 2     \* entry points in a calendar response

----------------------------------------------------------------------------
(* Values *)

NaN == "NaN"            \* pandas' marker of a blank cell
MISSING == "MISSING"    \* a key that is not in a dict
NULL == "NULL"          \* JSON null / Python None

SeqsUpTo(S, n) == UNION {[1..k -> S] : k \in 0..n}

RECURSIVE SelectSeq2(_, _)
\* the elements of s that are not in the set drop, order kept
SelectSeq2(s, drop) ==
    IF s = <<>> THEN <<>>
    ELSE IF Head(s) \in drop THEN SelectSeq2(Tail(s), drop)
         ELSE <<Head(s)>> \o SelectSeq2(Tail(s), drop)

----------------------------------------------------------------------------
(* Credentials and get_google_service (lines 26-39) *)

\* token.pkl: exists says whether the file is there; the other fields are the
\* pickled credential's token, expired and refresh_token
TokenFiles == [exists : BOOLEAN, token : BOOLEAN, expired : BOOLEAN,
               refresh_token : BOOLEAN]
NoToken == [exists |-> FALSE, token |-> FALSE, expired |-> FALSE,
            refresh_token |-> FALSE]

\* creds.valid as the code reads it at line 31
valid(c) == c.token /\ ~c.expired

\* AcqPath without the refresh branch of lines 32-33
AcqPathNoRefresh(file) ==
    IF file.exists /\ valid(file) THEN "cached" ELSE "flow"

\* the branch taken at lines 28-36 for the content of token.pkl
AcqPath(file) ==
    IF file.exists /\ valid(file) THEN "cached"
    ELSE IF file.exists /\ file.expired /\ file.refresh_token THEN "refresh"
    ELSE "flow"

\* get_google_service(api_name, api_version): ok says whether the refresh or
\* the interactive flow succeeded, rt whether the flow's credential carries a
\* refresh token.  Returns what the call did.
get_google_service(file, ok, rt) ==
    LET path == AcqPath(file)
        creds == CASE path = "cached"  -> file
                   [] path = "refresh" -> [file EXCEPT !.token = TRUE, !.expired = FALSE]
                   [] path = "flow"    -> [exists |-> TRUE, token |-> TRUE,
                                           expired |-> FALSE, refresh_token |-> rt]
        raised == path # "cached" /\ ~ok
    IN [path   |-> path,
        raised |-> raised,
        wrote  |-> path # "cached" /\ ~raised,
        after  |-> IF path # "cached" /\ ~raised THEN creds ELSE file]

----------------------------------------------------------------------------
(* CSV upload (lines 172-180) *)

Emails == {"a@x.com"}
Cells == Emails \cup {NaN}
\* a CSV document: whether it has an 'email' column, and that column's cells
CsvFiles == [present : {TRUE}, has_email : BOOLEAN, rows : SeqsUpTo(Cells, MaxRows)]
NoUpload == [present |-> FALSE, has_email |-> FALSE, rows |-> <<>>]

\* the column as it is, blank cells included
KeepNa(rows) == rows

\* df["email"].dropna().tolist()
dropna(rows) == SelectSeq2(rows, {NaN})

\* lines 173-180: the attendee list a run computes from the uploader value
LoadAttendees(file) ==
    IF ~file.present THEN <<>>
    ELSE IF ~file.has_email THEN <<>>
    ELSE dropna(file.rows)

\* lines 176-177: the validation error a run shows for the uploader value
UploadErrors(file) ==
    IF file.present /\ ~file.has_email
    THEN {"CSV must have an 'email' column"} ELSE {}

----------------------------------------------------------------------------
(* Calendar response and link extraction (lines 89-101) *)

Uris == {"", "https://meet/u1", "tel:u2"}
EntryTypes == {"video", "phone"}
\* an entry point: a dict with (possibly missing) entryPointType and uri, or
\* a value that is not a dict
BadEntry == [dict |-> FALSE, entryPointType |-> MISSING, uri |-> MISSING]
EmptyEntry == [dict |-> TRUE, entryPointType |-> MISSING, uri |-> MISSING]
EntryPoints ==
    [dict : {TRUE}, entryPointType : EntryTypes, uri : Uris]
    \cup {EmptyEntry, BadEntry}
EventIds == {MISSING, "", "evt1"}
UUIDs == {"uuid-1", "uuid-2"}
\* the dict returned by events().insert().execute(): conferenceData is
\* MISSING, NULL or "dict"; within a dict, entryPoints is MISSING, NULL or
\* "list" with the elements eps
Responses ==
    [present : {TRUE}, id : EventIds, conferenceData : {MISSING, NULL},
     entryPoints : {MISSING}, eps : {<<>>}]
    \cup
    [present : {TRUE}, id : EventIds, conferenceData : {"dict"},
     entryPoints : {MISSING, NULL}, eps : {<<>>}]
    \cup
    [present : {TRUE}, id : EventIds, conferenceData : {"dict"},
     entryPoints : {"list"}, eps : SeqsUpTo(EntryPoints, MaxEntryPoints)]
NoResponse == [present |-> FALSE, id |-> MISSING, conferenceData |-> MISSING,
               entryPoints |-> MISSING, eps |-> <<>>]

\* dict.get(key, default)
Get(d, key, default) == IF d[key] = MISSING THEN default ELSE d[key]

RECURSIVE VideoScan(_)
\* the for loop of lines 92-95: the link found and whether ep.get raised
VideoScan(eps) ==
    IF eps = <<>> THEN [link |-> "", raised |-> FALSE]
    ELSE IF ~Head(eps).dict THEN [link |-> "", raised |-> TRUE]
    ELSE IF Head(eps).entryPointType = "video"
         THEN [link |-> Get(Head(eps), "uri", ""), raised |-> FALSE]
         ELSE VideoScan(Tail(eps))

\* the statements of lines 91-97: the link they leave in meet_link and
\* whether one of them raised
LinkStatements(resp) ==
    LET failed == [link |-> "", raised |-> TRUE]
    IN IF resp.conferenceData = NULL THEN failed      \* None.get
       ELSE IF resp.conferenceData = MISSING          \* {}.get(..., [])
            THEN [link |-> "", raised |-> FALSE]
       ELSE IF resp.entryPoints = NULL THEN failed    \* for ep in None
       ELSE LET eps == IF resp.entryPoints = MISSING THEN <<>> ELSE resp.eps
                scan == VideoScan(eps)
            IN IF scan.raised THEN failed
               ELSE IF scan.link = "" /\ eps # <<>>
                    THEN [link |-> Get(eps[1], "uri", ""), raised |-> FALSE]
                    ELSE [link |-> scan.link, raised |-> FALSE]

\* lines 91-97 without the try/except around them
ExtractNoExcept(resp) ==
    LET x == LinkStatements(resp)
    IN [link |-> x.link, raised |-> x.raised, escaped |-> x.raised]

\* the try block of lines 89-99: except Exception catches whatever the
\* statements raise, so nothing escapes
ExtractMeetLink(resp) ==
    LET x == LinkStatements(resp)
    IN [link |-> x.link, raised |-> x.raised, escaped |-> FALSE]

\* created.get("id", str(uuid.uuid4())) at line 101
ReturnedId(resp, u) == Get(resp, "id", u)

----------------------------------------------------------------------------
(* Outbound calls *)

\* one outbound call and whether it succeeded
Call(api, ok) == [api |-> api, ok |-> ok]

\* the authorization call get_google_service makes on a path, if any
AuthCalls(path, ok) ==
    CASE path = "cached"  -> <<>>
      [] path = "refresh" -> <<Call("oauth.refresh", ok)>>
      [] path = "flow"    -> <<Call("oauth.flow", ok)>>

\* the insert call made again after a failure
InsertCallsRetry(log, ok) ==
    IF ok THEN Append(log, Call("calendar.insert", TRUE))
    ELSE log \o <<Call("calendar.insert", FALSE), Call("calendar.insert", FALSE)>>

\* lines 82-87: service.events().insert(...).execute() is called once
InsertCalls(log, ok) == Append(log, Call("calendar.insert", ok))

\* the insert call with its failure swallowed
InsertFailureSwallowed(ok, resp) ==
    [pc |-> "sched_extract", exception |-> "none",
     created |-> IF ok THEN resp ELSE NoResponse]

\* lines 82-87: what the insert call leaves behind; a failure raises
events_insert_execute(ok, resp) ==
    IF ok THEN [pc |-> "sched_extract", exception |-> "none", created |-> resp]
    ELSE [pc |-> "aborted", exception |-> "HttpError", created |-> NoResponse]

Count(log, api) == Cardinality({i \in 1..Len(log) : log[i].api = api})

----------------------------------------------------------------------------
(* The call build_ics(...) at line 220 against the signature of line 112 *)

\* positional parameters of build_ics without a default, in order
BuildIcsRequired == <<"summary", "description", "location", "organizer_email",
                      "attendees", "dt_start_local", "dt_end_local">>
\* the call at line 220: positional arguments, then keyword arguments
CallSitePositional == <<"topic", "organizer_email", "attendees", "start_dt", "end_dt">>
CallSiteKeywords == {"uid", "meet_link"}

\* Python's argument binding: the required parameters left without a value
MissingArguments(required, positional, keywords) ==
    {required[i] : i \in {j \in 1..Len(required) :
                            j > Len(positional) /\ required[j] \notin keywords}}

----------------------------------------------------------------------------
(* The script run *)

Interactive == pc \in {"idle", "done", "aborted"}

Init ==
    /\ tokenFile \in {NoToken} \cup {t \in TokenFiles : t.exists}
    /\ uploaded_file = NoUpload
    /\ attendees = <<>>
    /\ send_custom = TRUE
    /\ pc = "idle"
    /\ calls = <<>>
    /\ created = NoResponse
    /\ extraction = "none"
    /\ meet_link = ""
    /\ event_id = ""
    /\ st_error = {}
    /\ st_success = FALSE
    /\ exception = "none"
    /\ fpc = "off" /\ fin = <<>> /\ fsched = <<>> /\ ics = <<>>

\* a fresh run of the script: everything a run computes starts over
FreshRun ==
    /\ calls' = <<>>
    /\ created' = NoResponse
    /\ extraction' = "none"
    /\ meet_link' = ""
    /\ event_id' = ""
    /\ st_success' = FALSE
    /\ exception' = "none"

\* lines 172-180: the user uploads (or clears) a file; the script reruns with
\* submitted = False
Upload ==
    /\ Interactive
    /\ \E f \in CsvFiles \cup {NoUpload} :
          /\ uploaded_file' = f
          /\ attendees' = LoadAttendees(f)
          /\ st_error' = UploadErrors(f)
    /\ pc' = "idle"
    /\ FreshRun
    /\ UNCHANGED <<tokenFile, send_custom, fnvars>>

\* lines 172-197: the user presses "Schedule Meeting"; the script reruns with
\* submitted = True
Submit ==
    /\ Interactive
    /\ \E sc \in BOOLEAN : send_custom' = sc
    /\ attendees' = LoadAttendees(uploaded_file)
    /\ IF attendees' = <<>>
       THEN /\ st_error' = UploadErrors(uploaded_file) \cup {"No attendees uploaded."}
            /\ pc' = "done"
       ELSE /\ st_error' = UploadErrors(uploaded_file)
            /\ pc' = "sched_service"
    /\ FreshRun
    /\ UNCHANGED <<tokenFile, uploaded_file, fnvars>>

\* lines 52, 43 (and 150): get_google_service as called by schedule_meeting
\* and by get_sender_email
GetService ==
    /\ pc \in {"sched_service", "profile_service"}
    /\ \E ok \in BOOLEAN, rt \in BOOLEAN :
          LET r == get_google_service(tokenFile, ok, rt)
          IN /\ tokenFile' = r.after
             /\ calls' = calls \o AuthCalls(r.path, ~r.raised)
             /\ IF r.raised
                THEN pc' = "aborted" /\ exception' = "AuthError"
                ELSE /\ pc' = (IF pc = "sched_service" THEN "sched_insert"
                                                      ELSE "profile_call")
                     /\ UNCHANGED exception
    /\ UNCHANGED <<uploaded_file, attendees, send_custom, created, extraction,
                   meet_link, event_id, st_error, st_success, fnvars>>

\* lines 54-87: schedule_meeting builds the event and inserts it
CalendarInsert ==
    /\ pc = "sched_insert"
    /\ \E ok \in BOOLEAN, resp \in Responses :
          LET out == events_insert_execute(ok, resp)
          IN /\ calls' = InsertCalls(calls, ok)
             /\ pc' = out.pc
             /\ exception' = out.exception
             /\ created' = out.created
    /\ UNCHANGED <<tokenFile, uploaded_file, attendees, send_custom, extraction,
                   meet_link, event_id, st_error, st_success, fnvars>>

\* lines 89-99: the link extraction
ExtractLink ==
    /\ pc = "sched_extract"
    /\ LET x == ExtractMeetLink(created)
       IN IF x.escaped
          THEN /\ pc' = "aborted"
               /\ exception' = "ExtractionError"
               /\ UNCHANGED <<meet_link, extraction>>
          ELSE /\ pc' = "sched_return"
               /\ meet_link' = x.link
               /\ extraction' = (IF x.raised THEN "caught" ELSE "ok")
               /\ UNCHANGED exception
    /\ UNCHANGED <<tokenFile, uploaded_file, attendees, send_custom, calls,
                   created, event_id, st_error, st_success, fnvars>>

\* lines 101, 206, 216-218: schedule_meeting returns, the success message is
\* shown, and the run goes on to the custom e-mail branch if it is enabled
ScheduleReturn ==
    /\ pc = "sched_return"
    /\ \E u \in UUIDs : event_id' = ReturnedId(created, u)
    /\ created' = NoResponse
    /\ st_success' = TRUE
    /\ pc' = (IF send_custom THEN "profile_service" ELSE "done")
    /\ UNCHANGED <<tokenFile, uploaded_file, attendees, send_custom, calls,
                   extraction, meet_link, st_error, exception, fnvars>>

\* lines 44-45, 219: gmail.users().getProfile(userId="me").execute()
GetProfile ==
    /\ pc = "profile_call"
    /\ \E ok \in BOOLEAN :
          /\ calls' = Append(calls, Call("gmail.getProfile", ok))
          /\ IF ok THEN pc' = "build_ics" /\ UNCHANGED exception
                   ELSE pc' = "aborted" /\ exception' = "HttpError"
    /\ UNCHANGED <<tokenFile, uploaded_file, attendees, send_custom, created,
                   extraction, meet_link, event_id, st_error, st_success, fnvars>>

\* line 220: the call of build_ics; Python binds the arguments before the
\* body runs and raises TypeError when a required one is missing
BuildIcsCall ==
    /\ pc = "build_ics"
    /\ IF MissingArguments(BuildIcsRequired, CallSitePositional, CallSiteKeywords) # {}
       THEN pc' = "aborted" /\ exception' = "TypeError"
       ELSE pc' = "send_loop" /\ UNCHANGED exception
    /\ UNCHANGED <<tokenFile, uploaded_file, attendees, send_custom, calls,
                   created, extraction, meet_link, event_id, st_error,
                   st_success, fnvars>>

\* lines 237-239 with 149-164: one iteration of the attendee loop.  No run
\* reaches it (see NeverInSendLoop), so it is not a disjunct of Next.
SendCustomEmail ==
    /\ pc = "send_loop"
    /\ LET k == Count(calls, "gmail.send") + 1
       IN \E ok \in BOOLEAN :
             /\ calls' = Append(calls, Call("gmail.send", ok))
             /\ IF ~ok THEN pc' = "aborted" /\ exception' = "HttpError"
                ELSE /\ pc' = (IF k = Len(attendees) THEN "done" ELSE "send_loop")
                     /\ UNCHANGED exception
    /\ UNCHANGED <<tokenFile, uploaded_file, attendees, send_custom, created,
                   extraction, meet_link, event_id, st_error, st_success, fnvars>>

\* time passes: the cached credential expires
TokenExpire ==
    /\ tokenFile.exists /\ ~tokenFile.expired
    /\ tokenFile' = [tokenFile EXCEPT !.expired = TRUE]
    /\ UNCHANGED <<uploaded_file, attendees, send_custom, pc, calls, created,
                   extraction, meet_link, event_id, st_error, st_success,
                   exception, fnvars>>

Next ==
    \/ Upload
    \/ Submit
    \/ GetService
    \/ CalendarInsert
    \/ ExtractLink
    \/ ScheduleReturn
    \/ GetProfile
    \/ BuildIcsCall
    \/ TokenExpire

Spec == Init /\ [][Next]_vars

NeverInSendLoop == pc # "send_loop"

----------------------------------------------------------------------------
(* datetime arithmetic and formatting, as schedule_meeting (lines 54-55),   *)
(* to_utc (lines 107-109) and build_ics (lines 114-116) use them           *)

DateTime(y, mo, d, h, mi) ==
    [year |-> y, month |-> mo, day |-> d, hour |-> h, minute |-> mi, second |-> 0]

IsLeap(y) == y % 4 = 0 /\ (y % 100 # 0 \/ y % 400 = 0)

DaysInMonth(y, m) ==
    IF m = 2 THEN (IF IsLeap(y) THEN 29 ELSE 28)
    ELSE IF m \in {4, 6, 9, 11} THEN 30 ELSE 31

\* number of days before January 1st of year y
DaysBeforeYear(y) ==
    (y - 1) * 365 + ((y - 1) \div 4) - ((y - 1) \div 100) + ((y - 1) \div 400)

RECURSIVE DaysBeforeMonth(_, _)
\* number of days in year y before the first day of month m
DaysBeforeMonth(y, m) ==
    IF m = 1 THEN 0 ELSE DaysBeforeMonth(y, m - 1) + DaysInMonth(y, m - 1)

\* date.toordinal(): January 1st of year 1 is day 1
ToOrdinal(y, m, d) == DaysBeforeYear(y) + DaysBeforeMonth(y, m) + d

\* date.fromordinal(n), by the 400/100/4/1-year cycles
FromOrdinal(ord) ==
    LET n0 == ord - 1
        n400 == n0 \div 146097
        r400 == n0 % 146097
        n100 == r400 \div 36524
        r100 == r400 % 36524
        n4 == r100 \div 1461
        r4 == r100 % 1461
        n1 == r4 \div 365
        n == r4 % 365
        y == n400 * 400 + 1 + n100 * 100 + n4 * 4 + n1
    IN IF n1 = 4 \/ n100 = 4
       THEN [year |-> y - 1, month |-> 12, day |-> 31]
       ELSE LET m == CHOOSE k \in 1..12 :
                        /\ DaysBeforeMonth(y, k) <= n
                        /\ n < DaysBeforeMonth(y, k) + DaysInMonth(y, k)
            IN [year |-> y, month |-> m, day |-> n - DaysBeforeMonth(y, m) + 1]

\* datetime + timedelta(minutes=n), n of either sign
AddMinutes(dt, n) ==
    LET total == ToOrdinal(dt.year, dt.month, dt.day) * 1440
                 + dt.hour * 60 + dt.minute + n
        date == FromOrdinal(total \div 1440)
        rem == total % 1440
    IN [year |-> date.year, month |-> date.month, day |-> date.day,
        hour |-> rem \div 60, minute |-> rem % 60, second |-> dt.second]

\* the offset added instead of subtracted
ToUtcAdds(dt_local) == AddMinutes(dt_local, 330)

\* default of to_utc's parameter tz_offset_minutes
TzOffsetMinutes == 330

\* to_utc(dt_local): dt_local - timedelta(minutes=330), marked as UTC
to_utc(dt_local) == AddMinutes(dt_local, 0 - TzOffsetMinutes)

Digits == <<"0", "1", "2", "3", "4", "5", "6", "7", "8", "9">>
Digit(n) == Digits[n + 1]
Pad2(n) == <<Digit(n \div 10), Digit(n % 10)>>
Pad4(n) == <<Digit(n \div 1000), Digit((n \div 100) % 10)>> \o Pad2(n % 100)

\* dt.strftime("%Y%m%dT%H%M%SZ"), as the sequence of its characters
strftime(dt) ==
    Pad4(dt.year) \o Pad2(dt.month) \o Pad2(dt.day) \o <<"T">>
    \o Pad2(dt.hour) \o Pad2(dt.minute) \o Pad2(dt.second) \o <<"Z">>

----------------------------------------------------------------------------
(* build_ics (lines 112-143) *)

\* Python truthiness of a string-or-None value
Falsy(v) == v \in {"", NULL}

\* line 113: uid = uid or str(uuid.uuid4())
ResolveUid(uid, fresh) == IF Falsy(uid) THEN fresh ELSE uid

\* lines 118-122: the lines of the description, before they are joined
DescLines(description, link, dt_start_local) ==
    <<<<IF Falsy(description) THEN "" ELSE description>>>>
    \o (IF Falsy(link) THEN <<>> ELSE <<<<"Google Meet: ", link>>>>)
    \o <<<<"Local Timezone: ", "Asia/Kolkata", dt_start_local>>>>

\* build_ics(...): the properties of the VEVENT it writes; fresh is the value
\* uuid4 would return, now the current UTC time
build_ics(summary, description, location, organizer_email, to, dt_start_local, dt_end_local, uid, link, fresh, now) ==
    [UID       |-> ResolveUid(uid, fresh),
     DTSTAMP   |-> strftime(now),
     DTSTART   |-> strftime(to_utc(dt_start_local)),
     DTEND     |-> strftime(to_utc(dt_end_local)),
     SUMMARY   |-> summary,
     DESCRIPTION |-> DescLines(description, link, dt_start_local),
     LOCATION  |-> IF Falsy(location) THEN "" ELSE location,
     ORGANIZER |-> <<"mailto:", organizer_email>>,
     ATTENDEE  |-> [i \in 1..Len(to) |-> <<"mailto:", to[i]>>]]

----------------------------------------------------------------------------
(* SpecIcs: schedule_meeting's return value and build_ics on drawn inputs *)

Dates == {<<2024, 1, 10>>, <<2024, 1, 1>>, <<2024, 3, 1>>, <<2023, 3, 1>>,
          <<2024, 12, 31>>, <<2024, 5, 1>>}
Times == {<<0, 0>>, <<5, 29>>, <<5, 30>>, <<9, 0>>, <<23, 45>>}
Durations == {15, 30, 90}
Now == DateTime(2024, 1, 9, 12, 0)

InitIcs ==
    /\ tokenFile = NoToken
    /\ uploaded_file = NoUpload
    /\ attendees = <<>>
    /\ send_custom = TRUE
    /\ pc = "idle"
    /\ calls = <<>>
    /\ created = NoResponse
    /\ extraction = "none"
    /\ meet_link = ""
    /\ event_id = ""
    /\ st_error = {}
    /\ st_success = FALSE
    /\ exception = "none"
    /\ fpc = "start"
    /\ fin \in [date : Dates, time : Times, duration : Durations,
                id : EventIds, link : {"", "https://meet/u1"}]
    /\ fsched = <<>>
    /\ ics = <<>>

\* lines 54-55 and 101: the tuple schedule_meeting returns
FnSchedule ==
    /\ fpc = "start"
    /\ \E u \in UUIDs :
          LET start_dt_local == DateTime(fin.date[1], fin.date[2], fin.date[3],
                                         fin.time[1], fin.time[2])
          IN fsched' = [meet_link |-> fin.link,
                        event_id  |-> ReturnedId([id |-> fin.id], u),
                        start_dt  |-> start_dt_local,
                        end_dt    |-> AddMinutes(start_dt_local, fin.duration)]
    /\ fpc' = "scheduled"
    /\ UNCHANGED <<fin, ics, appvars>>

\* build_ics applied to what schedule_meeting returned, with uid and
\* meet_link passed by keyword as line 220 passes them
FnBuildIcs ==
    /\ fpc = "scheduled"
    /\ \E fresh \in UUIDs :
          ics' = build_ics("Team Meeting", NULL, NULL, "me@x.com",
                           <<"a@x.com", "b@x.com">>, fsched.start_dt,
                           fsched.end_dt, fsched.event_id, fsched.meet_link,
                           fresh, Now)
    /\ fpc' = "built"
    /\ UNCHANGED <<fin, fsched, appvars>>

NextIcs == FnSchedule \/ FnBuildIcs

SpecIcs == InitIcs /\ [][NextIcs]_vars

----------------------------------------------------------------------------
(* Properties of the script run (Spec) *)

Terminal == pc \in {"done", "aborted"}
CollaboratorFailed == \E i \in 1..Len(calls) : ~calls[i].ok
MailSends == Count(calls, "gmail.send")
InsertIndexes == {i \in 1..Len(calls) : calls[i].api = "calendar.insert"}

\* C1: a submission with attendees and the custom e-mail option, in which no
\* collaborator call fails, ends with one mail send per attendee.
C1_OneMailPerAttendee ==
    (Terminal /\ send_custom /\ attendees # <<>> /\ ~CollaboratorFailed)
        => MailSends = Len(attendees)

\* C3: the link schedule_meeting chooses is the uri of the first entry point
\* of type "video"; without one, the uri of the first entry point; for an
\* empty sequence, the empty string.
WellFormed(eps) ==
    \A i \in 1..Len(eps) :
        eps[i].dict /\ eps[i].entryPointType # MISSING /\ eps[i].uri # MISSING
VideoIndexes(eps) == {i \in 1..Len(eps) : eps[i].entryPointType = "video"}
FirstVideoElseFirst(eps) ==
    IF VideoIndexes(eps) # {}
    THEN eps[CHOOSE i \in VideoIndexes(eps) : \A j \in VideoIndexes(eps) : i <= j].uri
    ELSE IF eps # <<>> THEN eps[1].uri ELSE ""
C3_FirstVideoElseFirst ==
    (pc = "sched_return" /\ created.entryPoints = "list" /\ WellFormed(created.eps))
        => meet_link = FirstVideoElseFirst(created.eps)

\* C4: a submission makes at most one event-creation call, and has made it
\* once it is past schedule_meeting; every Gmail call (the profile lookup and
\* each mail send) comes after it in the call order, one call per step, and
\* only when it has succeeded.
C4_InsertOnceBeforeMail ==
    /\ Cardinality(InsertIndexes) <= 1
    /\ pc \in {"sched_extract", "sched_return", "profile_service",
               "profile_call", "build_ics", "send_loop"}
          => \E i \in InsertIndexes : calls[i].ok
    /\ st_success => \E i \in InsertIndexes : calls[i].ok
    /\ \A k \in 1..Len(calls) :
          calls[k].api \in {"gmail.send", "gmail.getProfile"}
              => \E i \in InsertIndexes : i < k /\ calls[i].ok
C4_Witness ==
    /\ pc = "aborted" /\ exception = "TypeError"
    /\ \E i \in InsertIndexes : calls[i].ok
    /\ \E k \in 1..Len(calls) : calls[k].api = "gmail.getProfile"

\* C5: when the event-creation call fails, the run aborts with the failure,
\* no event is recorded, no mail is sent, and the call was made only once.
InsertFailed == \E i \in InsertIndexes : ~calls[i].ok
C5_InsertFailureAborts ==
    InsertFailed =>
        /\ pc = "aborted" /\ exception = "HttpError"
        /\ ~st_success /\ ~created.present /\ event_id = "" /\ meet_link = ""
        /\ MailSends = 0
        /\ Cardinality(InsertIndexes) = 1
        /\ calls[Len(calls)].api = "calendar.insert"
C5_Witness == InsertFailed /\ pc = "aborted" /\ Len(attendees) = 2

\* C7: a submission whose attendee list is empty (no upload, no 'email'
\* column, or only blank cells) reports an error and makes no outbound call.
NoAddresses(file) ==
    \/ ~file.present
    \/ ~file.has_email
    \/ \A i \in 1..Len(file.rows) : file.rows[i] = NaN
C7_EmptyListNoCalls ==
    (pc # "idle" /\ NoAddresses(uploaded_file))
        => /\ pc = "done"
           /\ "No attendees uploaded." \in st_error
           /\ calls = <<>>
           /\ ~st_success
C7_Witness ==
    /\ pc = "done" /\ uploaded_file.present /\ uploaded_file.has_email
    /\ uploaded_file.rows = <<NaN, NaN>>
    /\ "No attendees uploaded." \in st_error

\* C8: link extraction never raises out of schedule_meeting; when it fails
\* the link is empty, and the run goes on as it does when it succeeds.
Malformed(resp) ==
    \/ resp.conferenceData = NULL
    \/ resp.entryPoints = NULL
    \/ \E i \in 1..Len(resp.eps) :
          /\ ~resp.eps[i].dict
          /\ \A j \in 1..(i - 1) : resp.eps[j].entryPointType # "video"
C8_ExtractionNeverRaises ==
    /\ exception # "ExtractionError"
    /\ pc = "sched_return" =>
          /\ extraction = (IF Malformed(created) THEN "caught" ELSE "ok")
          /\ Malformed(created) => meet_link = ""
    /\ extraction = "caught" => meet_link = ""
    /\ (extraction # "none" /\ pc \notin {"sched_return", "aborted"}) =>
          /\ st_success
          /\ pc = "done" <=> ~send_custom
C8_Witness ==
    extraction = "caught" /\ pc = "build_ics" /\ meet_link = "" /\ st_success

\* C9 (as the claim states it): every acquisition that finds the cached
\* credential absent or expired triggers an interactive flow.
Acquisition == pc \in {"sched_service", "profile_service"} /\ pc' # pc
Triggered(api) ==
    /\ Len(calls') = Len(calls) + 1
    /\ calls'[Len(calls')].api = api
    /\ SubSeq(calls', 1, Len(calls)) = calls
Usable(file) == file.exists /\ file.token /\ ~file.expired
Refreshable(file) ==
    file.exists /\ ~Usable(file) /\ file.expired /\ file.refresh_token
C9_AbsentOrExpiredRunsFlow ==
    [][(Acquisition /\ (~tokenFile.exists \/ tokenFile.expired))
           => Triggered("oauth.flow")]_vars

\* C9 (amended): a valid cached credential is reused without any
\* authorization call or write; an expired one with a refresh token is
\* refreshed without an interactive flow; in every other case the interactive
\* flow runs.  When the refresh or flow succeeds the cache is rewritten and
\* holds a valid credential; when it fails the cache is left as it was.
C9_RefreshOrFlowThenCached ==
    [][Acquisition =>
          /\ Usable(tokenFile) => calls' = calls /\ tokenFile' = tokenFile
          /\ Refreshable(tokenFile) <=> Triggered("oauth.refresh")
          /\ (~Usable(tokenFile) /\ ~Refreshable(tokenFile))
                <=> Triggered("oauth.flow")
          /\ pc' # "aborted" => Usable(tokenFile')
          /\ pc' = "aborted" =>
                /\ ~Usable(tokenFile)
                /\ tokenFile' = tokenFile
                /\ ~calls'[Len(calls')].ok]_vars
C9_Witness ==
    /\ pc = "profile_call"
    /\ Count(calls, "oauth.refresh") = 1
    /\ Count(calls, "oauth.flow") = 0
    /\ Usable(tokenFile)

----------------------------------------------------------------------------
(* Properties of the functions (SpecIcs) *)

\* C2: the UID of the invite equals the event id schedule_meeting returned.
C2_UidIsEventId ==
    fpc = "built" => ics.UID = fsched.event_id

\* C10: DTSTART and DTEND are the local start and end minus 330 minutes,
\* borrowing from the hour and the date, written as 15 characters and "Z";
\* their difference is the duration; the worked example comes out as stated.
PrevDay(dt) ==
    IF dt.day > 1 THEN [dt EXCEPT !.day = dt.day - 1]
    ELSE IF dt.month > 1
         THEN [dt EXCEPT !.month = dt.month - 1,
                         !.day = DaysInMonth(dt.year, dt.month - 1)]
         ELSE [dt EXCEPT !.year = dt.year - 1, !.month = 12, !.day = 31]
MinusOffset(dt, off) ==
    LET m == dt.hour * 60 + dt.minute - off
    IN IF m >= 0 THEN [dt EXCEPT !.hour = m \div 60, !.minute = m % 60]
       ELSE [PrevDay(dt) EXCEPT !.hour = (m + 1440) \div 60,
                                !.minute = (m + 1440) % 60]
DigitVal(c) == CHOOSE n \in 0..9 : Digits[n + 1] = c
Num(chars, from, to) ==
    LET RECURSIVE val(_)
        val(i) == IF i < from THEN 0 ELSE val(i - 1) * 10 + DigitVal(chars[i])
    IN val(to)
Parse(chars) ==
    [year |-> Num(chars, 1, 4), month |-> Num(chars, 5, 6),
     day |-> Num(chars, 7, 8), hour |-> Num(chars, 10, 11),
     minute |-> Num(chars, 12, 13), second |-> Num(chars, 14, 15)]
Stamp(chars) == Len(chars) = 16 /\ chars[9] = "T" /\ chars[16] = "Z"
MinuteOfEra(dt) ==
    ToOrdinal(dt.year, dt.month, dt.day) * 1440 + dt.hour * 60 + dt.minute
C10_UtcIsLocalMinusOffset ==
    fpc = "built" =>
        /\ Stamp(ics.DTSTART) /\ Stamp(ics.DTEND)
        /\ Parse(ics.DTSTART) = MinusOffset(fsched.start_dt, 330)
        /\ Parse(ics.DTEND) = MinusOffset(fsched.end_dt, 330)
        /\ MinuteOfEra(Parse(ics.DTEND)) - MinuteOfEra(Parse(ics.DTSTART))
              = fin.duration
        /\ (fin.date = <<2024, 1, 10>> /\ fin.time = <<9, 0>> /\ fin.duration = 30)
              => /\ ics.DTSTART = <<"2","0","2","4","0","1","1","0","T",
                                    "0","3","3","0","0","0","Z">>
                 /\ ics.DTEND = <<"2","0","2","4","0","1","1","0","T",
                                  "0","4","0","0","0","0","Z">>
C10_Witness ==
    /\ fpc = "built"
    /\ fin.date = <<2024, 3, 1>> /\ fin.time = <<5, 29>>
    /\ ics.DTSTART = <<"2","0","2","4","0","2","2","9","T",
                       "2","3","5","9","0","0","Z">>

====
